---- MODULE Spec2Model ----
(***************************************************************************)
(* Model of pkot5/klue/finetuning.py.                                      *)
(*                                                                         *)
(* One state machine, the workers of a process group each running train(), *)
(* under ten specifications. The handlers are those of the source; when    *)
(* trainer.train() starts an evaluation and when it returns belongs to the *)
(* training framework, and is a separate part of each next-state relation. *)
(*   Spec      the distributed evaluation rounds of one trainer.train():   *)
(*             world_size workers each run Metrics.on_evaluate             *)
(*             (infer, publish to redis, barrier, collect, compute), under *)
(*             a trainer that runs one synchronous round per checkpoint.   *)
(*   FaultSpec Spec plus workers faulting during inference.                *)
(*   LossSpec  Spec plus the redis server losing a key.                    *)
(*   SplitSpec FaultSpec on shards that split the evaluation set.          *)
(*   FairSpec  SplitSpec with weak fairness of every worker's steps.       *)
(*   ScoreSpec Spec over the tasks with and without sequence scores,       *)
(*             'vinca' included.                                           *)
(*   FoldSpec  the k-fold loop of train() in every worker: per fold a new  *)
(*             Metrics callback, the evaluation rounds of trainer.train(), *)
(*             the best-metric loop over metrics.metrics, and the result   *)
(*             file written by local rank 0.                               *)
(*   EmFoldSpec FoldSpec on the one-key task.                              *)
(*   FreeSpec  the k-fold loop in two workers under a trainer that holds   *)
(*             no worker back: the barrier of on_evaluate is the only      *)
(*             waiting.                                                    *)
(*   SelectSpec the best-metric loop of one fold, from line 134, on any    *)
(*             list of records.                                            *)
(***************************************************************************)
EXTENDS Integers, Sequences, FiniteSets, TLC

\* ---------------------------------------------------------------- bounds
MaxWorld == 2      \* largest process group explored
DataSize == 2      \* entries of the evaluation set (len(test_data.entries))
MaxRounds == 2     \* evaluation rounds of one trainer.train()
NumFolds == 5      \* folds explored (the source asks KFold for 10 splits)
MaxRecords == 4    \* longest metrics.metrics given to the best-metric loop alone

VARIABLES
    world_size,    \* dist.get_world_size()
    task,          \* processor.task
    shard,         \* shard[w]: entry indices the sampler gives rank w
    pc,            \* pc[w]: position of worker w in train() / on_evaluate
                   \* ("fault": raised inside on_evaluate, "raised": raised
                   \* at line 143, after trainer.train() returned)
    barrier_calls, \* barrier_calls[w]: dist.barrier() calls made by w
    store,         \* the redis server: key string -> value
    all_logits,    \* all_logits[w]: local of on_evaluate
    all_scores,    \* all_scores[w]: local of on_evaluate
    i,             \* i[w]: loop variable of the collect loop
    compute_args,  \* compute_args[w]: arguments of w's last compute_metrics call
    metrics,       \* metrics[w]: self.metrics of w's callback
    local_rank,    \* local_rank[w]: int(os.getenv("LOCAL_RANK", "-1")) in train()
    fold_i,        \* fold_i[w]: i, the fold counter of train()
    m_idx,         \* m_idx[w]: position of `for metric in metrics.metrics`
    best_metric,   \* best_metric[w]: best_metric of train()
    files,         \* result_<task>.txt per fold directory
    scored         \* scored[r]: what processor.compute_metrics returns for the
                   \* merged predictions of round r (None while nobody asked)

evalVars == <<world_size, shard, pc, barrier_calls, store, all_logits,
              all_scores, i, compute_args, metrics>>
foldVars == <<local_rank, fold_i, m_idx, best_metric, files, scored>>
vars == <<world_size, task, shard, pc, barrier_calls, store, all_logits,
          all_scores, i, compute_args, metrics,
          local_rank, fold_i, m_idx, best_metric, files, scored>>

\* ------------------------------------------------------------ data model
Tasks == {"mrc", "ynat"}

Ranks == 0 .. (world_size - 1)

\* test_data.entries: the evaluation set in dataset order
Entries == [e \in 1 .. DataSize |-> e]

Digits == <<"0", "1", "2", "3", "4", "5", "6", "7", "8", "9">>

\* f"{n}" for n >= 0
RECURSIVE Str(_)
Str(n) == IF n < 10 THEN Digits[n + 1] ELSE Str(n \div 10) \o Digits[(n % 10) + 1]

\* the redis keys a group of up to MaxWorld workers touches
Keys == {Str(n) : n \in 0 .. (MaxWorld - 1)}

\* redis GET of an absent key returns None
None == <<>>

\* pickle.dumps([all_logits, all_scores])
PickleDumps(logits, scores) == <<"pickle", logits, scores>>

\* variant: the pair comes back in the order of line 67 (scores, logits)
PickleLoadsSwapped(b) == <<b[3], b[2]>>

\* logits, scores = pickle.loads(...)
PickleLoads(b) == <<b[2], b[3]>>

\* ascending enumeration of a set of entry indices
RECURSIVE SortedSeq(_)
SortedSeq(S) ==
    IF S = {} THEN <<>>
    ELSE LET m == CHOOSE x \in S : \A y \in S : x <= y
         IN <<m>> \o SortedSeq(S \ {m})

\* DistributedSamplerForEval(test_data): the shard of one rank is a subset of
\* the evaluation set, iterated in dataset order
Shards == {SortedSeq(S) : S \in SUBSET (1 .. DataSize)}

\* output.sequences / output.sequences_scores of model.generate for entry e
\* with the weights the model has in evaluation round r
Generate(r, e) == <<"seq", r, e>>
GenerateScore(r, e) == <<"score", r, e>>

\* evaluation round worker w is in (1-based): one record is appended per round
Round(w) == Len(metrics[w]) + 1

\* processor.compute_metrics is owned by the task processor: a function of
\* its arguments that returns one value per metric key of the task
MetricKeys(t) == IF t = "mrc" THEN <<"em", "rouge">> ELSE <<"em">>

KeySet(t) == {MetricKeys(t)[n] : n \in 1 .. Len(MetricKeys(t))}

\* metric values a processor reports, in hundredths (80 stands for 0.80)
Values == {79, 80}

\* the records processor.compute_metrics can return for task t
MetricRecords(t) == [KeySet(t) -> Values]

\* a processor that counts exact matches: the positions whose prediction was
\* generated for the entry at that position
Matches(logits, entries) ==
    Cardinality({j \in 1 .. Len(entries) :
                    j <= Len(logits) /\ logits[j][3] = entries[j]})

\* the evaluation round a merged prediction list comes from (0 when empty):
\* what tells two calls of compute_metrics apart
RoundOf(logits) == IF Len(logits) = 0 THEN 0 ELSE logits[1][2]

\* the records processor.compute_metrics(logits, entries, output_scores) can
\* return: the one it returned before for these predictions, else any
ComputeMetrics(logits, entries, output_scores) ==
    IF scored[RoundOf(logits)] # None
    THEN {scored[RoundOf(logits)]}
    ELSE MetricRecords(task)

\* `if len(all_scores) == 0: all_scores = None`
OutputScores(scores) == IF Len(scores) = 0 THEN <<"None", <<>>>> ELSE <<"list", scores>>

\* ------------------------------------------------------- Metrics.on_evaluate
\* variant: only 'mrc' keeps the sequence scores
TaskHasScoresMrcOnly == task = "mrc"

\* line 59
TaskHasScores == task = "mrc" \/ task = "vinca"

\* lines 40-63: what the inference loop leaves in all_logits and all_scores
\* of rank w in evaluation round r
LocalLogits(w, r) == [k \in 1 .. Len(shard[w]) |-> Generate(r, shard[w][k])]

LocalScores(w, r) ==
    IF TaskHasScores
    THEN [k \in 1 .. Len(shard[w]) |-> GenerateScore(r, shard[w][k])]
    ELSE <<>>

\* f"{dist.get_rank()}"
RankKey(w) == Str(w)

\* worker w is in the part of on_evaluate after its r.set
InRound(w) == pc[w] \in {"arrive", "barrier", "collect"}

\* lines 39-65: local inference over the worker's shard, then r.set
Publish(w) ==
    /\ pc[w] = "eval"
    /\ all_logits' = [all_logits EXCEPT ![w] = LocalLogits(w, Round(w))]
    /\ all_scores' = [all_scores EXCEPT ![w] = LocalScores(w, Round(w))]
    /\ store' = [store EXCEPT
            ![RankKey(w)] = PickleDumps(LocalLogits(w, Round(w)), LocalScores(w, Round(w)))]
    /\ pc' = [pc EXCEPT ![w] = "arrive"]
    /\ UNCHANGED <<world_size, task, shard, barrier_calls, i,
                   compute_args, metrics, foldVars>>

\* lines 49-61: a device error or the shape assertion ends the worker
\* before it publishes
EvaluateFault(w) ==
    /\ pc[w] = "eval"
    /\ pc' = [pc EXCEPT ![w] = "fault"]
    /\ UNCHANGED <<world_size, task, shard, barrier_calls, store, all_logits,
                   all_scores, i, compute_args, metrics, foldVars>>

\* line 66: the worker calls dist.barrier()
BarrierEnter(w) ==
    /\ pc[w] = "arrive"
    /\ barrier_calls' = [barrier_calls EXCEPT ![w] = @ + 1]
    /\ pc' = [pc EXCEPT ![w] = "barrier"]
    /\ UNCHANGED <<world_size, task, shard, store, all_logits, all_scores, i,
                   compute_args, metrics, foldVars>>

\* variant: a barrier that waits for one caller more than the group has
BarrierOpenNever(w) ==
    Cardinality({v \in Ranks : barrier_calls[v] >= barrier_calls[w]}) >= world_size + 1

\* variant: a barrier that lets every caller through at once
BarrierOpenAlways(w) == TRUE

\* dist.barrier() returns once every worker of the group has made the call
BarrierOpen(w) == \A v \in Ranks : barrier_calls[v] >= barrier_calls[w]

\* line 66 returning, and line 67
Barrier(w) ==
    /\ pc[w] = "barrier"
    /\ BarrierOpen(w)
    /\ all_logits' = [all_logits EXCEPT ![w] = <<>>]
    /\ all_scores' = [all_scores EXCEPT ![w] = <<>>]
    /\ i' = [i EXCEPT ![w] = 0]
    /\ pc' = [pc EXCEPT ![w] = "collect"]
    /\ UNCHANGED <<world_size, task, shard, barrier_calls, store,
                   compute_args, metrics, foldVars>>

\* variant: the loop stops one rank short
CollectRangeShort == world_size - 1

\* range(dist.get_world_size())
CollectRange == world_size

\* variant: the slots are read from the highest rank down
GetKeyDescending(n) == Str(world_size - 1 - n)

\* self.r.get(f"{i}"): the key of loop index n
GetKey(n) == Str(n)

\* variant: a missing slot is skipped instead of raising
CollectSkipMissing(w) ==
    /\ pc[w] = "collect"
    /\ i[w] < CollectRange
    /\ LET b == store[GetKey(i[w])]
       IN /\ all_logits' = [all_logits EXCEPT
                ![w] = IF b = None THEN @ ELSE @ \o PickleLoads(b)[1]]
          /\ all_scores' = [all_scores EXCEPT
                ![w] = IF b = None THEN @ ELSE @ \o PickleLoads(b)[2]]
          /\ i' = [i EXCEPT ![w] = @ + 1]
          /\ pc' = pc
    /\ UNCHANGED <<world_size, task, shard, barrier_calls, store,
                   compute_args, metrics, foldVars>>

\* lines 68-71: one iteration of the collect loop
Collect(w) ==
    /\ pc[w] = "collect"
    /\ i[w] < CollectRange
    /\ LET b == store[GetKey(i[w])]
       IN IF b = None
          THEN \* pickle.loads(None) raises TypeError
               /\ pc' = [pc EXCEPT ![w] = "fault"]
               /\ UNCHANGED <<all_logits, all_scores, i>>
          ELSE /\ all_logits' = [all_logits EXCEPT ![w] = @ \o PickleLoads(b)[1]]
               /\ all_scores' = [all_scores EXCEPT ![w] = @ \o PickleLoads(b)[2]]
               /\ i' = [i EXCEPT ![w] = @ + 1]
               /\ pc' = pc
    /\ UNCHANGED <<world_size, task, shard, barrier_calls, store,
                   compute_args, metrics, foldVars>>

\* lines 72-76: the loop is over; compute and append the metric record
Compute(w) ==
    /\ pc[w] = "collect"
    /\ i[w] >= CollectRange
    /\ compute_args' = [compute_args EXCEPT
            ![w] = <<all_logits[w], Entries, OutputScores(all_scores[w])>>]
    /\ \E rec \in ComputeMetrics(all_logits[w], Entries, OutputScores(all_scores[w])) :
          /\ metrics' = [metrics EXCEPT ![w] = Append(@, rec)]
          /\ scored' = [scored EXCEPT ![RoundOf(all_logits[w])] = rec]
    /\ pc' = [pc EXCEPT ![w] = IF Len(metrics[w]) + 1 >= MaxRounds THEN "done" ELSE "eval"]
    /\ UNCHANGED <<world_size, task, shard, barrier_calls, store, all_logits,
                   all_scores, i, local_rank, fold_i, m_idx, best_metric, files>>

\* line 69 when the redis server has dropped the key (flush, eviction,
\* restart) by the time of the GET: the key is gone for every later reader,
\* self.r.get returns None and pickle.loads(None) raises TypeError
GetMissing(w) ==
    /\ pc[w] = "collect"
    /\ i[w] < CollectRange
    /\ store[GetKey(i[w])] # None
    /\ store' = [store EXCEPT ![GetKey(i[w])] = None]
    /\ pc' = [pc EXCEPT ![w] = "fault"]
    /\ UNCHANGED <<world_size, task, shard, barrier_calls, all_logits,
                   all_scores, i, compute_args, metrics, foldVars>>

\* --------------------------------------------------------------- train()
\* variant: all() in place of any()
AllGreaterEqual(metric, best) == \A k \in DOMAIN best : metric[k] >= best[k]

\* variant: > in place of >=
AnyGreater(metric, best) == \E k \in DOMAIN best : metric[k] > best[k]

\* line 138: any(metric[k] >= best_metric[k] for k in best_metric.keys())
AnyGreaterEqual(metric, best) == \E k \in DOMAIN best : metric[k] >= best[k]

\* lines 136-139: the body of `for metric in metrics.metrics`
BestStep(best, metric) ==
    IF best = None THEN metric
    ELSE IF AnyGreaterEqual(metric, best) THEN metric
    ELSE best

\* lines 135-139 on the first n records of ms: the position in ms of the
\* record best_metric is bound to (0 while it is None)
RECURSIVE BestIndex(_, _)
BestIndex(ms, n) ==
    IF n = 0 THEN 0
    ELSE IF n = 1 THEN 1
    ELSE LET b == BestIndex(ms, n - 1)
         IN IF AnyGreaterEqual(ms[n], ms[b]) THEN n ELSE b

\* lines 143-144: f"{k}={v}\n" for k, v in best_metric.items()
FormatLines(best) ==
    [n \in 1 .. Len(MetricKeys(task)) |->
        MetricKeys(task)[n] \o "=" \o Str(best[MetricKeys(task)[n]]) \o "\n"]

\* a file on disk: who opened it for writing and the lines written
File(writer, lines) == <<"file", writer, lines>>

\* variant: no rank test, every worker writes
WritesResultAll(rank) == TRUE

\* line 141: if local_rank == 0
WritesResult(rank) == rank = 0

\* lines 101-120: kf.split yields the next fold; model, data and a new
\* Metrics callback are built, whose __init__ sets self.metrics = []. The
\* store keeps the keys of the fold before. The predictions of the new
\* model on the new data are new questions to compute_metrics; the
\* bookkeeping of its answers is cleared by the last worker to get here.
MetricsInit(w) ==
    /\ pc[w] = "fold"
    /\ fold_i[w] < NumFolds
    /\ metrics' = [metrics EXCEPT ![w] = <<>>]
    /\ scored' =
          IF \A v \in Ranks \ {w} : fold_i[v] = fold_i[w] /\ pc[v] # "fold"
          THEN [r \in DOMAIN scored |-> None]
          ELSE scored
    /\ pc' = [pc EXCEPT ![w] = "eval"]
    /\ UNCHANGED <<world_size, task, shard, barrier_calls, store, all_logits,
                   all_scores, i, compute_args, local_rank, fold_i, m_idx,
                   best_metric, files>>

\* variant: best_metric is initialised once, before the fold loop
TrainerReturnKeepBest(w) ==
    /\ pc[w] \in {"eval", "done"}
    /\ best_metric' = best_metric
    /\ m_idx' = [m_idx EXCEPT ![w] = 1]
    /\ pc' = [pc EXCEPT ![w] = "select"]
    /\ UNCHANGED <<world_size, task, shard, barrier_calls, store, all_logits,
                   all_scores, i, compute_args, metrics, local_rank, fold_i,
                   files, scored>>

\* lines 131-134: trainer.train() returns after its last evaluation, the
\* model is saved and the selection starts from best_metric = None
TrainerReturn(w) ==
    /\ pc[w] \in {"eval", "done"}
    /\ best_metric' = [best_metric EXCEPT ![w] = None]
    /\ m_idx' = [m_idx EXCEPT ![w] = 1]
    /\ pc' = [pc EXCEPT ![w] = "select"]
    /\ UNCHANGED <<world_size, task, shard, barrier_calls, store, all_logits,
                   all_scores, i, compute_args, metrics, local_rank, fold_i,
                   files, scored>>

\* lines 135-139: one iteration of the best-metric loop over metrics.metrics,
\* the list the callback appended to
SelectBest(w) ==
    /\ pc[w] = "select"
    /\ m_idx[w] <= Len(metrics[w])
    /\ best_metric' = [best_metric EXCEPT ![w] = BestStep(@, metrics[w][m_idx[w]])]
    /\ m_idx' = [m_idx EXCEPT ![w] = @ + 1]
    /\ UNCHANGED <<world_size, task, shard, pc, barrier_calls, store, all_logits,
                   all_scores, i, compute_args, metrics, local_rank, fold_i,
                   files, scored>>

\* lines 141-145 on the worker that writes: open(..., 'wt') creates the file,
\* then best_metric.items() raises on None, else the lines are written
WriteResult(w) ==
    /\ pc[w] = "select"
    /\ m_idx[w] > Len(metrics[w])
    /\ WritesResult(local_rank[w])
    /\ IF best_metric[w] = None
       THEN /\ files' = [files EXCEPT ![fold_i[w]] = File(local_rank[w], <<>>)]
            /\ pc' = [pc EXCEPT ![w] = "raised"]
            /\ fold_i' = fold_i
       ELSE /\ files' = [files EXCEPT
                    ![fold_i[w]] = File(local_rank[w], FormatLines(best_metric[w]))]
            /\ fold_i' = [fold_i EXCEPT ![w] = @ + 1]
            /\ pc' = [pc EXCEPT ![w] = IF fold_i[w] + 1 >= NumFolds THEN "end" ELSE "fold"]
    /\ UNCHANGED <<world_size, task, shard, barrier_calls, store, all_logits,
                   all_scores, i, compute_args, metrics, local_rank, m_idx,
                   best_metric, scored>>

\* lines 141-145 on every other worker: only i += 1
SkipResult(w) ==
    /\ pc[w] = "select"
    /\ m_idx[w] > Len(metrics[w])
    /\ ~WritesResult(local_rank[w])
    /\ fold_i' = [fold_i EXCEPT ![w] = @ + 1]
    /\ pc' = [pc EXCEPT ![w] = IF fold_i[w] + 1 >= NumFolds THEN "end" ELSE "fold"]
    /\ UNCHANGED <<world_size, task, shard, barrier_calls, store, all_logits,
                   all_scores, i, compute_args, metrics, local_rank, m_idx,
                   best_metric, files, scored>>

\* ------------------------------------------- the trainer (not in src/)
\* When trainer.train() calls on_evaluate and when it returns is decided by
\* Seq2SeqTrainer. What follows is the trainer the specification describes:
\* one synchronous evaluation round per checkpoint in a data-parallel group
\* whose training steps are collective operations.

\* worker v is through n evaluations of the trainer.train() of fold f
Finished(v, f, n) ==
    \/ fold_i[v] > f
    \/ fold_i[v] = f /\ pc[v] # "fold" /\ Len(metrics[v]) >= n

\* the trainer.train() of worker v in fold f has returned: v is in the
\* lines after it, raised in them (line 143), or is in a later fold
Left(v, f) ==
    \/ fold_i[v] > f
    \/ fold_i[v] = f /\ pc[v] \in {"select", "raised", "end"}

\* the training steps between two evaluations synchronise gradients over the
\* whole group: a worker is out of them only after every worker has returned
\* from the evaluation before
TrainSynced(w) == \A v \in Ranks : Finished(v, fold_i[w], Len(metrics[w]))

\* trainer.train() reaches a checkpoint and calls on_evaluate: every worker
\* runs the same configuration, so none evaluates once another has returned
SyncedEvaluate(w) ==
    /\ TrainSynced(w)
    /\ \A v \in Ranks : ~Left(v, fold_i[w])
    /\ Publish(w)

\* trainer.train() returns where every worker's does: after the same
\* number of evaluations
SyncedReturn(w) ==
    /\ TrainSynced(w)
    /\ \A v \in Ranks : ~(fold_i[v] = fold_i[w] /\ InRound(v))
    /\ TrainerReturn(w)

\* a trainer that holds no worker back: each worker evaluates MaxRounds
\* times per trainer.train(), at its own pace
FreeReturn(w) ==
    /\ pc[w] = "done"
    /\ TrainerReturn(w)

\* concatenation, in ascending rank order, of what ranks 0 .. n-1 publish in round r
RECURSIVE PublishedLogits(_, _)
PublishedLogits(n, r) ==
    IF n = 0 THEN <<>> ELSE PublishedLogits(n - 1, r) \o LocalLogits(n - 1, r)

\* train() of every worker before its first fold, started by a launcher
\* that sets LOCAL_RANK to the rank
FoldInit ==
    /\ local_rank = [w \in Ranks |-> w]
    /\ fold_i = [w \in Ranks |-> 0]
    /\ m_idx = [w \in Ranks |-> 1]
    /\ best_metric = [w \in Ranks |-> None]
    /\ files = [f \in 0 .. (NumFolds - 1) |-> None]

\* on_evaluate's variables in the trainer.train() of fold 0, before the
\* first evaluation
EvalInit ==
    /\ world_size \in 1 .. MaxWorld
    /\ shard \in [Ranks -> Shards]
    /\ barrier_calls = [w \in Ranks |-> 0]
    /\ store = [k \in Keys |-> None]
    /\ all_logits = [w \in Ranks |-> <<>>]
    /\ all_scores = [w \in Ranks |-> <<>>]
    /\ i = [w \in Ranks |-> 0]
    /\ compute_args = [w \in Ranks |-> None]
    /\ metrics = [w \in Ranks |-> <<>>]
    /\ pc = [w \in Ranks |-> "eval"]

\* the processor that counts exact matches: its answer for the merged
\* predictions of every round
ExactMatch ==
    [r \in 0 .. MaxRounds |->
        [k \in KeySet(task) |-> Matches(PublishedLogits(world_size, r), Entries)]]

\* every worker inside the trainer.train() of fold 0, with the processor
\* that counts exact matches
Init ==
    /\ task \in Tasks
    /\ EvalInit
    /\ FoldInit
    /\ scored = ExactMatch

\* the evaluation rounds when no worker and no server fails
Next ==
    \/ \E w \in Ranks : SyncedEvaluate(w)
    \/ \E w \in Ranks : BarrierEnter(w)
    \/ \E w \in Ranks : Barrier(w)
    \/ \E w \in Ranks : Collect(w)
    \/ \E w \in Ranks : Compute(w)

Spec == Init /\ [][Next]_vars

\* the evaluation rounds with workers that can fault during inference
FaultNext == Next \/ \E w \in Ranks : EvaluateFault(w)

FaultSpec == Init /\ [][FaultNext]_vars

\* the evaluation rounds with a redis server that can lose keys
LossNext == Next \/ \E w \in Ranks : GetMissing(w)

LossSpec == Init /\ [][LossNext]_vars

\* the shard of rank w when the sampler deals the entries out in turn, one of
\* the splits in Shards
StridedShard(w) == SortedSeq({e \in 1 .. DataSize : e % world_size = (w + 1) % world_size})

\* the groups train() is run in, as the LOCAL_RANK of each worker: one
\* process started without a launcher (LOCAL_RANK unset, -1), one process as
\* the only worker of a launcher, and two workers of a launcher
FoldGroups ==
    {[w \in 0 .. 0 |-> -1], [w \in 0 .. 0 |-> 0], [w \in 0 .. 1 |-> w]}

\* the runs of train() explored: every group on the one-key task, the
\* single-process groups on the two-key task
FoldRuns ==
    {run \in Tasks \X FoldGroups :
        run[1] = "ynat" \/ Cardinality(DOMAIN run[2]) = 1}

\* train() of every worker at line 101, before the first fold, with any
\* processor
FoldSpecInit ==
    /\ \E run \in FoldRuns :
          /\ task = run[1]
          /\ local_rank = run[2]
    /\ world_size = Cardinality(DOMAIN local_rank)
    /\ shard = [w \in Ranks |-> StridedShard(w)]
    /\ pc = [w \in Ranks |-> "fold"]
    /\ barrier_calls = [w \in Ranks |-> 0]
    /\ store = [k \in Keys |-> None]
    /\ all_logits = [w \in Ranks |-> <<>>]
    /\ all_scores = [w \in Ranks |-> <<>>]
    /\ i = [w \in Ranks |-> 0]
    /\ compute_args = [w \in Ranks |-> None]
    /\ metrics = [w \in Ranks |-> <<>>]
    /\ fold_i = [w \in Ranks |-> 0]
    /\ m_idx = [w \in Ranks |-> 1]
    /\ best_metric = [w \in Ranks |-> None]
    /\ files = [f \in 0 .. (NumFolds - 1) |-> None]
    /\ scored = [r \in 0 .. MaxRounds |-> None]

\* train(): the fold loop of every worker, with the evaluation rounds of
\* each trainer.train()
FoldNext ==
    \/ Next
    \/ \E w \in Ranks : MetricsInit(w)
    \/ \E w \in Ranks : SyncedReturn(w)
    \/ \E w \in Ranks : SelectBest(w)
    \/ \E w \in Ranks : WriteResult(w)
    \/ \E w \in Ranks : SkipResult(w)

FoldSpec == FoldSpecInit /\ [][FoldNext]_vars

\* ================================================================ claims
\* ---- helpers of the claims about the evaluation rounds
RECURSIVE PublishedScores(_, _)
PublishedScores(n, r) ==
    IF n = 0 THEN <<>> ELSE PublishedScores(n - 1, r) \o LocalScores(n - 1, r)

\* the shards of ranks 0 .. n-1 one after the other
RECURSIVE ShardOrder(_)
ShardOrder(n) == IF n = 0 THEN <<>> ELSE ShardOrder(n - 1) \o shard[n - 1]

RECURSIVE SumShards(_)
SumShards(n) == IF n = 0 THEN 0 ELSE SumShards(n - 1) + Len(shard[n - 1])

\* worker w has left the collect loop of its current round
CollectDone(w) == pc[w] = "collect" /\ i[w] = world_size

\* worker w has called compute_metrics at least once
Computed(w) == compute_args[w] # None

\* C1: once every rank has published, the collect loop yields, after i
\* iterations, the concatenation of the first i ranks' published predictions
\* and scores in ascending rank order; when it ends the predictions have
\* length s_0 + ... + s_{N-1} and are the concatenation over all ranks, and
\* that is what the loop hands on to compute_metrics.
C1_CollectConcatenates ==
    \A w \in Ranks :
      /\ Computed(w) =>
            /\ compute_args[w][1] = PublishedLogits(world_size, Len(metrics[w]))
            /\ Len(compute_args[w][1]) = SumShards(world_size)
      /\ pc[w] = "collect" =>
            /\ all_logits[w] = PublishedLogits(i[w], Round(w))
            /\ all_scores[w] = PublishedScores(i[w], Round(w))
            /\ i[w] <= world_size
            /\ CollectDone(w) =>
                  /\ Len(all_logits[w]) = SumShards(world_size)
                  /\ \A v \in Ranks :
                        SubSeq(all_logits[w], SumShards(v) + 1, SumShards(v + 1))
                            = PickleLoads(store[RankKey(v)])[1]

C1_Witness ==
    /\ world_size = 2
    /\ task = "mrc"
    /\ Len(shard[0]) = 2
    /\ Len(shard[1]) = 1
    /\ CollectDone(1)
    /\ Round(1) = 2
    /\ Len(all_logits[1]) = 3
    /\ Len(all_scores[1]) = 3

\* ---- C2
\* barriers worker w has come out of
BarriersPassed(w) == IF pc[w] = "barrier" THEN barrier_calls[w] - 1 ELSE barrier_calls[w]

\* C2: a worker is past the barrier of a round only if every worker of the
\* group has published for that round and has called the barrier; so while
\* some worker has faulted before the barrier of a round, nobody collects in
\* that round or completes it.
C2_BarrierAfterAllPublished ==
    /\ \A w, v \in Ranks : barrier_calls[v] >= BarriersPassed(w)
    /\ \A w, v \in Ranks :
          pc[w] = "collect" =>
              /\ barrier_calls[v] > Len(metrics[v]) \/ Len(metrics[v]) >= Round(w)
              /\ store[RankKey(v)] =
                    PickleDumps(LocalLogits(v, Round(w)), LocalScores(v, Round(w)))
    /\ \A w, v \in Ranks :
          pc[v] = "fault" =>
              /\ ~(pc[w] = "collect" /\ Round(w) = Round(v))
              /\ Len(metrics[w]) < Round(v)

C2_Witness ==
    /\ world_size = 2
    /\ pc[0] = "fault"
    /\ Round(0) = 2
    /\ pc[1] = "barrier"
    /\ barrier_calls[1] = 2
    /\ store[RankKey(1)] = PickleDumps(LocalLogits(1, 2), LocalScores(1, 2))

\* C3: all workers obtain the same aggregate: two workers that have finished
\* the same number of rounds passed identical arguments to compute_metrics
\* and appended identical records, and two workers at the end of the collect
\* loop of the same round hold the same predictions and scores.
C3_SameAggregateEverywhere ==
    \A w, v \in Ranks :
        /\ (Len(metrics[w]) = Len(metrics[v]) /\ Computed(w)) =>
              /\ compute_args[w] = compute_args[v]
              /\ metrics[w] = metrics[v]
        /\ (CollectDone(w) /\ CollectDone(v) /\ Round(w) = Round(v)) =>
              /\ all_logits[w] = all_logits[v]
              /\ all_scores[w] = all_scores[v]

\* rank 0 published two predictions and rank 1 one, no scores; both collected
\* the three predictions in rank order and no scores
C3_Witness ==
    /\ world_size = 2
    /\ task = "ynat"
    /\ shard = [w \in Ranks |-> IF w = 0 THEN <<1, 2>> ELSE <<1>>]
    /\ \A w \in Ranks :
          /\ Len(metrics[w]) = 2
          /\ compute_args[w] =
                <<LocalLogits(0, 2) \o LocalLogits(1, 2), Entries, <<"None", <<>>>> >>

\* ---- C4
\* the shards are a split of the evaluation set: every entry is in exactly one
ShardsPartition ==
    /\ SumShards(world_size) = DataSize
    /\ \A e \in 1 .. DataSize : \E v \in Ranks : \E k \in 1 .. Len(shard[v]) : shard[v][k] = e

\* C4 as claimed: the predictions handed to compute_metrics are as many as
\* the entries of the evaluation set, whatever shards the sampler hands out.
C4_LengthIsDatasetSize ==
    \A w \in Ranks : Computed(w) => Len(compute_args[w][1]) = Len(compute_args[w][2])

\* C4 amended: the predictions handed to compute_metrics are as many as the
\* shard sizes of all ranks add up to; that is the size of the evaluation set
\* when the shards are a split of it (every entry in exactly one shard).
C4_LengthIsSumOfShards ==
    \A w \in Ranks :
        Computed(w) =>
            /\ Len(compute_args[w][1]) = SumShards(world_size)
            /\ compute_args[w][2] = Entries
            /\ ShardsPartition => Len(compute_args[w][1]) = Len(compute_args[w][2])

C4_Witness ==
    /\ world_size = 2
    /\ Len(shard[0]) = 2
    /\ Len(shard[1]) = 1
    /\ Computed(0)
    /\ Len(compute_args[0][1]) = 3
    /\ Len(compute_args[0][2]) = 2

\* ---- C5
\* entry a prediction was generated for
EntryOf(logit) == logit[3]

\* C5 as claimed: element j of the aggregate is the prediction for entry j.
C5_AlignedWithDataset ==
    \A w \in Ranks :
        Computed(w) =>
            /\ Len(compute_args[w][1]) = Len(compute_args[w][2])
            /\ \A j \in 1 .. Len(compute_args[w][1]) :
                  EntryOf(compute_args[w][1][j]) = compute_args[w][2][j]

\* C5 amended: element j of the aggregate is the prediction, by the weights of
\* that round, for the j-th entry of the shards laid end to end in rank order;
\* it is the prediction for entry j when the shards laid end to end are the
\* evaluation set in its own order.
C5_AlignedWithShardOrder ==
    \A w \in Ranks :
        Computed(w) =>
            /\ Len(compute_args[w][1]) = Len(ShardOrder(world_size))
            /\ \A j \in 1 .. Len(compute_args[w][1]) :
                  compute_args[w][1][j] = Generate(Len(metrics[w]), ShardOrder(world_size)[j])
            /\ ShardOrder(world_size) = Entries =>
                  \A j \in 1 .. Len(compute_args[w][1]) :
                      EntryOf(compute_args[w][1][j]) = compute_args[w][2][j]

C5_Witness ==
    /\ world_size = 2
    /\ shard = [w \in Ranks |-> IF w = 0 THEN <<1>> ELSE <<2>>]
    /\ Computed(1)
    /\ compute_args[1][1] = <<Generate(1, 1), Generate(1, 2)>>
    /\ Len(metrics[1]) = 1
    /\ metrics[1][1] \in ComputeMetrics(compute_args[1][1], Entries, compute_args[1][3])

\* ---- helpers of the claims about the fold loop
\* the best-metric loop of worker w has gone through all of metrics.metrics
SelectionDone(w) == pc[w] = "select" /\ m_idx[w] > Len(metrics[w])

\* the record the loop of lines 134-139 ends with on the list ms
RECURSIVE SelectedOf(_)
SelectedOf(ms) ==
    IF Len(ms) = 0 THEN None
    ELSE BestStep(SelectedOf(SubSeq(ms, 1, Len(ms) - 1)), ms[Len(ms)])

\* the key=value lines of record rec, one per metric key
KeyValueLines(rec) ==
    [n \in 1 .. Len(MetricKeys(task)) |->
        MetricKeys(task)[n] \o "=" \o Str(rec[MetricKeys(task)[n]]) \o "\n"]

\* C6: one step of the best-metric loop with current best A and next record
\* B: the first record of the fold becomes the best; afterwards B replaces A
\* if some key k has B[k] >= A[k], and A is kept if no key has.
C6_BestSelectionRule ==
    [][\A w \in Ranks :
        (pc[w] = "select" /\ m_idx'[w] = m_idx[w] + 1) =>
          LET A == best_metric[w]
              B == metrics[w][m_idx[w]]
          IN /\ m_idx[w] = 1 => (A = None /\ best_metric'[w] = B)
             /\ m_idx[w] > 1 =>
                   /\ A # None
                   /\ (\E k \in KeySet(task) : B[k] >= A[k]) => best_metric'[w] = B
                   /\ (\A k \in KeySet(task) : B[k] < A[k]) => best_metric'[w] = A
                   /\ (best_metric'[w] # A) => (\E k \in KeySet(task) : B[k] >= A[k])
    ]_vars

\* B is better on one key and worse on the other, and has replaced A
C6_Witness ==
    /\ task = "mrc"
    /\ pc[0] = "select"
    /\ m_idx[0] = 3
    /\ metrics[0][1] = [em |-> 80, rouge |-> 79]
    /\ metrics[0][2] = [em |-> 79, rouge |-> 80]
    /\ best_metric[0] = metrics[0][2]

\* ---- C7
\* the runs of train() on the one-key task, whose records are {em: v}
EmFoldInit ==
    /\ FoldSpecInit
    /\ task = "ynat"

EmFoldSpec == EmFoldInit /\ [][FoldNext]_vars

\* fold 3 ended with em = 0.80 as its best; fold 4 yielded the one record
\* em = 0.79 and its selection is over in the worker of local rank 0
Fold3Then4 ==
    /\ local_rank[0] = 0
    /\ task = "ynat"
    /\ files[3] = File(0, <<"em=80\n">>)
    /\ fold_i[0] = 4
    /\ metrics[0] = <<[em |-> 79]>>
    /\ SelectionDone(0)

\* C7 as claimed: after fold 3 yielded em = 0.80 and fold 4 em = 0.79, the
\* best-metric record after fold 4 is em = 0.80.
C7_Fold3Retained == Fold3Then4 => best_metric[0] = [em |-> 80]

\* C7 amended: the best record is selected per fold, starting from nothing:
\* after fold 3 yielded em = 0.80 and fold 4 em = 0.79, the best record after
\* fold 4 is fold 4's em = 0.79, and em = 0.80 stays in the result file of
\* fold 3; within one fold, a round yielding em = 0.80 followed by a round
\* yielding em = 0.79 leaves em = 0.80 as the best.
C7_BestIsPerFold ==
    /\ Fold3Then4 =>
          /\ best_metric[0] = [em |-> 79]
          /\ files[3] = File(0, <<"em=80\n">>)
    /\ \A w \in Ranks :
          /\ (SelectionDone(w) /\ metrics[w] = <<[em |-> 80], [em |-> 79]>>) =>
                best_metric[w] = [em |-> 80]
          /\ SelectionDone(w) => best_metric[w] = SelectedOf(metrics[w])

C7_Witness == Fold3Then4 /\ best_metric[0] = [em |-> 79]

\* ---- C8
\* train() of worker w has returned: all folds processed
Terminal(w) == pc[w] = "end"

\* C8 as claimed: when a fold controller is in its terminal state, every fold
\* has a result file written by rank 0.
C8_EveryFoldHasFile ==
    \A w \in Ranks :
        Terminal(w) =>
            \A f \in 0 .. (NumFolds - 1) : files[f] # None /\ files[f][2] = 0

\* C8 amended: result files are written by the worker whose local rank is 0
\* and by no other; when the fold loop of that worker is over, every fold has
\* its file, holding one key=value line per metric key; each file is written
\* when the fold ends in that worker, with the lines of the best record
\* selected from that fold's metrics, and is not touched again. A process
\* whose local rank is not 0 (-1 when LOCAL_RANK is unset) ends its fold loop
\* without writing, so a run without a local rank 0 ends with no file.
C8_ResultFilesByRankZero ==
    /\ [](\A f \in DOMAIN files :
            files[f] # None =>
                /\ files[f][2] = 0
                /\ \E w \in Ranks : local_rank[w] = 0 /\ fold_i[w] >= f)
    /\ [](\A w \in Ranks :
            (Terminal(w) /\ local_rank[w] = 0) =>
                \A f \in 0 .. (NumFolds - 1) :
                    /\ files[f] # None
                    /\ Len(files[f][3]) = Len(MetricKeys(task)))
    /\ [](\A w \in Ranks : Terminal(w) => fold_i[w] = NumFolds)
    /\ []((\A w \in Ranks : local_rank[w] # 0) =>
            \A f \in DOMAIN files : files[f] = None)
    /\ [][\A w \in Ranks :
            (fold_i'[w] = fold_i[w] + 1 /\ local_rank[w] = 0) =>
                /\ best_metric[w] = SelectedOf(metrics[w])
                /\ files'[fold_i[w]] = File(0, KeyValueLines(best_metric[w]))
                /\ \A f \in DOMAIN files : f # fold_i[w] => files'[f] = files[f]
         ]_vars
    /\ [][\A w \in Ranks :
            (fold_i'[w] = fold_i[w] + 1 /\ local_rank[w] # 0) => files' = files
         ]_vars
    /\ [][\A w \in Ranks :
            local_rank[w] = 0 =>
                \A f \in DOMAIN files : f < fold_i[w] => files'[f] = files[f]
         ]_vars

\* the single worker of a launcher has processed all folds of the two-key
\* task: the first and the last fold have their two lines
C8_Witness ==
    /\ world_size = 1
    /\ local_rank[0] = 0
    /\ task = "mrc"
    /\ Terminal(0)
    /\ files[0] = File(0, <<"em=80\n", "rouge=79\n">>)
    /\ files[NumFolds - 1] = File(0, <<"em=79\n", "rouge=80\n">>)

\* C9: a worker whose GET in the collect loop finds no value under the key
\* faults on that iteration, and a worker faults in the collect loop only
\* on a missing key: it never computes or appends a record for the round, a
\* faulted worker never takes another step (no retry), every compute_metrics
\* call saw a complete merge, and no worker gets more than one round past a
\* faulted one.
C9_MissingKeyFaults ==
    /\ [][\A w \in Ranks :
            (pc[w] = "collect" /\ pc'[w] = "fault") =>
                /\ i[w] < world_size
                /\ store'[GetKey(i[w])] = None
                /\ metrics'[w] = metrics[w]
                /\ compute_args'[w] = compute_args[w]
         ]_vars
    /\ [][\A w \in Ranks :
            (/\ pc[w] = "collect"
             /\ i[w] < world_size
             /\ store[GetKey(i[w])] = None
             /\ <<pc[w], i[w], all_logits[w], all_scores[w]>>'
                    # <<pc[w], i[w], all_logits[w], all_scores[w]>>)
            => (/\ pc'[w] = "fault"
                /\ metrics'[w] = metrics[w]
                /\ compute_args'[w] = compute_args[w])
         ]_vars
    /\ [][\A w \in Ranks :
            pc[w] = "fault" =>
                /\ pc'[w] = "fault"
                /\ i'[w] = i[w]
                /\ all_logits'[w] = all_logits[w]
                /\ metrics'[w] = metrics[w]
                /\ compute_args'[w] = compute_args[w]
         ]_vars
    /\ [](\A w \in Ranks :
            Computed(w) => Len(compute_args[w][1]) = SumShards(world_size))
    /\ [](\A w, v \in Ranks : pc[w] = "fault" => Len(metrics[v]) <= Round(w))

\* rank 1 read slot 0, then found slot 1 gone: it holds a partial merge that
\* no record was computed from
C9_Witness ==
    /\ world_size = 2
    /\ pc[1] = "fault"
    /\ i[1] = 1
    /\ Len(shard[0]) = 2
    /\ all_logits[1] = LocalLogits(0, 2)
    /\ store[GetKey(1)] = None
    /\ Len(metrics[1]) = 1
    /\ barrier_calls[1] = 2

\* C10: with a single worker the collect loop yields exactly what the worker
\* published in that round, and that is what compute_metrics receives.
C10_SingleWorkerOwnResult ==
    world_size = 1 =>
        /\ CollectDone(0) =>
              /\ all_logits[0] = LocalLogits(0, Round(0))
              /\ all_scores[0] = LocalScores(0, Round(0))
              /\ store[RankKey(0)] = PickleDumps(all_logits[0], all_scores[0])
        /\ Computed(0) =>
              /\ compute_args[0][1] = LocalLogits(0, Len(metrics[0]))
              /\ compute_args[0][3] = OutputScores(LocalScores(0, Len(metrics[0])))

C10_Witness ==
    /\ world_size = 1
    /\ task = "mrc"
    /\ CollectDone(0)
    /\ Round(0) = 2
    /\ Len(all_logits[0]) = 2
    /\ Len(all_scores[0]) = 2

\* Init with shards that split the evaluation set: every entry is evaluated
\* by exactly one rank
SplitInit ==
    /\ Init
    /\ ShardsPartition

\* the evaluation rounds on such shards, with workers that can fault during
\* inference
SplitSpec == SplitInit /\ [][FaultNext]_vars

\* ---- C11
\* train() in a group of two from line 101
FreeInit ==
    /\ FoldSpecInit
    /\ Cardinality(Ranks) > 1

\* train() under a trainer that holds no worker back: the only waiting is
\* the dist.barrier() of on_evaluate
FreeNext ==
    \/ \E w \in Ranks : Publish(w)
    \/ \E w \in Ranks : BarrierEnter(w)
    \/ \E w \in Ranks : Barrier(w)
    \/ \E w \in Ranks : Collect(w)
    \/ \E w \in Ranks : Compute(w)
    \/ \E w \in Ranks : MetricsInit(w)
    \/ \E w \in Ranks : FreeReturn(w)
    \/ \E w \in Ranks : SelectBest(w)
    \/ \E w \in Ranks : WriteResult(w)
    \/ \E w \in Ranks : SkipResult(w)

FreeSpec == FreeInit /\ [][FreeNext]_vars

\* evaluations worker v has published since train() began, over all folds,
\* when every trainer.train() evaluates MaxRounds times
PublishedCount(v) ==
    fold_i[v] * MaxRounds +
        (IF pc[v] \in {"fold", "end"} THEN 0
         ELSE IF InRound(v) THEN Round(v)
         ELSE Len(metrics[v]))

\* the round, within its fold, of the n-th evaluation since train() began
RoundIn(n) == ((n - 1) % MaxRounds) + 1

\* what rank v published in its n-th evaluation
PublishedBy(v, n) == PickleDumps(LocalLogits(v, RoundIn(n)), LocalScores(v, RoundIn(n)))

\* C11 as claimed: while a worker collects in a round, every slot holds what
\* its rank published in that round; no rank has published the next round.
C11_NoCrossRoundOverwrite ==
    \A w, v \in Ranks :
        pc[w] = "collect" =>
            /\ PublishedCount(v) = PublishedCount(w)
            /\ store[RankKey(v)] = PublishedBy(v, PublishedCount(w))

\* C11 amended: the barrier alone makes the value a worker reads from slot i
\* during its n-th evaluation (counted over epochs and folds) what rank i
\* published in its n-th or in its (n+1)-th evaluation, never an older value
\* and never none: a rank that is through evaluation n can publish n+1 over
\* its slot while another still collects n, and gets no further. A publish
\* made once every worker has returned from the evaluation before, as under
\* a trainer whose training steps synchronise the group, overwrites nothing
\* a worker still has to read.
C11_BarrierBoundsOverwrite ==
    /\ [](\A w, v \in Ranks :
            pc[w] = "collect" =>
                /\ PublishedCount(v) \in {PublishedCount(w), PublishedCount(w) + 1}
                /\ store[RankKey(v)] = PublishedBy(v, PublishedCount(v)))
    /\ [][\A w \in Ranks :
            (pc[w] = "collect" /\ i'[w] = i[w] + 1) =>
                \E n \in {PublishedCount(w), PublishedCount(w) + 1} :
                    /\ all_logits'[w] = all_logits[w] \o PickleLoads(PublishedBy(i[w], n))[1]
                    /\ all_scores'[w] = all_scores[w] \o PickleLoads(PublishedBy(i[w], n))[2]
         ]_vars
    /\ [][\A v \in Ranks :
            (store'[RankKey(v)] # store[RankKey(v)] /\ TrainSynced(v)) =>
                \A w \in Ranks : InRound(w) => PublishedCount(w) > PublishedCount(v)
         ]_vars

\* rank 0 is in fold 1 and has published its first round there while rank 1
\* still collects the last round of fold 0: rank 1 has read from slot 0 the
\* prediction of the next fold's first round
C11_Witness ==
    /\ world_size = 2
    /\ fold_i[0] = 1
    /\ InRound(0)
    /\ Round(0) = 1
    /\ fold_i[1] = 0
    /\ pc[1] = "collect"
    /\ Round(1) = MaxRounds
    /\ i[1] = 1
    /\ all_logits[1] = LocalLogits(0, 1)
    /\ store[RankKey(0)] = PublishedBy(0, MaxRounds + 1)

\* ---- C12
\* any step of worker w inside trainer.train(); a fault is not a step the
\* scheduler owes the worker
WorkerStep(w) ==
    /\ w \in Ranks
    /\ \/ SyncedEvaluate(w)
       \/ BarrierEnter(w)
       \/ Barrier(w)
       \/ Collect(w)
       \/ Compute(w)

\* SplitSpec with each worker an OS process that keeps running while it has
\* a step to take
FairSpec ==
    /\ SplitSpec
    /\ \A w \in 0 .. (MaxWorld - 1) : WF_vars(WorkerStep(w))

\* every worker has finished inference and published in round r
AllPublished(r) ==
    \A v \in Ranks : Len(metrics[v]) >= r \/ (Round(v) = r /\ InRound(v))

\* C12: under weak fairness of every worker's steps, once all N workers have
\* published in a round, every worker eventually leaves the barrier, ends the
\* collect loop and appends the record of that round; a worker appends one
\* record per barrier it has come out of, and only at the end of a collect loop.
C12_RoundCompletes ==
    /\ \A w \in 0 .. (MaxWorld - 1) : \A r \in 1 .. MaxRounds :
          (w \in Ranks /\ AllPublished(r)) ~> (w \in Ranks /\ Len(metrics[w]) >= r)
    /\ [](\A w \in Ranks :
            Len(metrics[w]) =
                IF pc[w] = "collect" THEN BarriersPassed(w) - 1 ELSE BarriersPassed(w))
    /\ [][\A w \in Ranks :
            metrics'[w] # metrics[w] =>
                /\ CollectDone(w)
                /\ Len(metrics'[w]) = Len(metrics[w]) + 1
         ]_vars

\* both workers have published in round 2 and rank 1 is the last to arrive at
\* the barrier, where rank 0 waits
C12_Witness ==
    /\ world_size = 2
    /\ AllPublished(2)
    /\ pc[0] = "barrier"
    /\ pc[1] = "arrive"
    /\ Len(metrics[0]) = 1
    /\ Len(metrics[1]) = 1

\* ---- C13
\* the tasks of the evaluation rounds together with the special-cased task
\* of line 92
ScoreTasks == Tasks \cup {"vinca"}

ScoreInit ==
    /\ task \in ScoreTasks
    /\ EvalInit
    /\ FoldInit
    /\ scored = ExactMatch

\* the evaluation rounds over every kind of task
ScoreSpec == ScoreInit /\ [][Next]_vars

\* lengths of a partial result of worker w: as many predictions as the shard
\* has entries, as many scores for a scored task and none otherwise
ShardSized(w, logits, scores) ==
    /\ Len(logits) = Len(shard[w])
    /\ Len(scores) = IF task \in {"mrc", "vinca"} THEN Len(shard[w]) ELSE 0

\* C13: what a worker publishes in any round has one prediction per entry of
\* its shard, and one score per entry when the task is 'mrc' or 'vinca' and
\* no score otherwise; so compute_metrics gets output_scores = None exactly
\* when the task is neither 'mrc' nor 'vinca' or nothing was evaluated, and
\* otherwise a list of scores as long as the aggregated predictions. When the
\* shards split a non-empty evaluation set, None means an unscored task.
C13_PartialResultLengths ==
    \A w \in Ranks :
        /\ store[RankKey(w)] # None =>
              ShardSized(w, PickleLoads(store[RankKey(w)])[1],
                            PickleLoads(store[RankKey(w)])[2])
        /\ pc[w] \in {"arrive", "barrier"} =>
              /\ ShardSized(w, all_logits[w], all_scores[w])
              /\ store[RankKey(w)] = PickleDumps(all_logits[w], all_scores[w])
        /\ Computed(w) =>
              /\ compute_args[w][3][1] = "None" <=>
                    (task \notin {"mrc", "vinca"} \/ SumShards(world_size) = 0)
              /\ compute_args[w][3][1] = "None" => compute_args[w][3][2] = <<>>
              /\ compute_args[w][3][1] # "None" =>
                    /\ compute_args[w][3][1] = "list"
                    /\ Len(compute_args[w][3][2]) = Len(compute_args[w][1])
                    /\ Len(compute_args[w][3][2]) = SumShards(world_size)
              /\ ShardsPartition =>
                    (compute_args[w][3][1] = "None" <=> task \notin {"mrc", "vinca"})

\* task 'vinca', shards of two and one entries: rank 1 handed compute_metrics
\* three predictions and three scores
C13_Witness ==
    /\ world_size = 2
    /\ task = "vinca"
    /\ Len(shard[0]) = 2
    /\ Len(shard[1]) = 1
    /\ Computed(1)
    /\ Len(compute_args[1][1]) = 3
    /\ compute_args[1][3][1] = "list"
    /\ Len(compute_args[1][3][2]) = 3

\* ---- C14
\* metric values of the records given to the best-metric loop, in hundredths
SelectValues == {78, 79, 80}

\* line 134 of fold 0 in a single worker that evaluates the whole set:
\* trainer.train() has returned after n <= MaxRecords evaluations, the n-th
\* round is the last thing on_evaluate left behind, and metrics.metrics is
\* any list of n records of the task
SelectInit ==
    /\ task \in Tasks
    /\ world_size = 1
    /\ shard = [w \in Ranks |-> Entries]
    /\ pc = [w \in Ranks |-> "select"]
    /\ metrics \in [Ranks ->
            UNION {[1 .. n -> [KeySet(task) -> SelectValues]] : n \in 0 .. MaxRecords}]
    /\ barrier_calls = [w \in Ranks |-> Len(metrics[w])]
    /\ store = [k \in Keys |->
            IF k = RankKey(0) /\ Len(metrics[0]) > 0
            THEN PickleDumps(LocalLogits(0, Len(metrics[0])), LocalScores(0, Len(metrics[0])))
            ELSE None]
    /\ all_logits = [w \in Ranks |->
            IF Len(metrics[w]) > 0 THEN LocalLogits(w, Len(metrics[w])) ELSE <<>>]
    /\ all_scores = [w \in Ranks |->
            IF Len(metrics[w]) > 0 THEN LocalScores(w, Len(metrics[w])) ELSE <<>>]
    /\ i = [w \in Ranks |-> IF Len(metrics[w]) > 0 THEN CollectRange ELSE 0]
    /\ compute_args = [w \in Ranks |->
            IF Len(metrics[w]) > 0
            THEN <<all_logits[w], Entries, OutputScores(all_scores[w])>>
            ELSE None]
    /\ local_rank = [w \in Ranks |-> 0]
    /\ fold_i = [w \in Ranks |-> 0]
    /\ m_idx = [w \in Ranks |-> 1]
    /\ best_metric = [w \in Ranks |-> None]
    /\ files = [f \in 0 .. (NumFolds - 1) |-> None]
    /\ scored = [r \in 0 .. MaxRecords |->
            IF r \in 1 .. Len(metrics[0]) THEN metrics[0][r] ELSE None]

\* the best-metric loop of one fold
SelectNext == \E w \in Ranks : SelectBest(w)

SelectSpec == SelectInit /\ [][SelectNext]_vars

\* C14: after any number n >= 1 of rounds of a fold the best-metric loop holds
\* one of the fold's first n records, the one the 'any key >=' rule applied
\* in round order ends with; when the records have a single key, that record
\* carries the maximum of the n values and is the latest round that reached
\* the maximum.
C14_SingleKeyLatestMaximum ==
    \A w \in Ranks :
      (pc[w] = "select" /\ m_idx[w] > 1) =>
        LET n == m_idx[w] - 1
            j == BestIndex(metrics[w], n)
        IN /\ j \in 1 .. n
           /\ best_metric[w] = metrics[w][j]
           /\ best_metric[w] = SelectedOf(SubSeq(metrics[w], 1, n))
           /\ Cardinality(KeySet(task)) = 1 =>
                 \A k \in KeySet(task) :
                     /\ \A q \in 1 .. n : metrics[w][q][k] <= best_metric[w][k]
                     /\ \A q \in (j + 1) .. n : metrics[w][q][k] < best_metric[w][k]

\* single key, four rounds em = 0.79, 0.80, 0.78, 0.80: the loop ends bound to
\* the record of the fourth round
C14_Witness ==
    /\ task = "ynat"
    /\ pc[0] = "select"
    /\ metrics[0] = <<[em |-> 79], [em |-> 80], [em |-> 78], [em |-> 80]>>
    /\ m_idx[0] = 5
    /\ BestIndex(metrics[0], 4) = 4
    /\ best_metric[0] = [em |-> 80]

====
